---- MODULE Spec2Model ----
(***************************************************************************)
(* The packetforward client (package packetforward): the forwarder struct, *)
(* its Write / writeToUpstream retry loop, dialUpstream, the               *)
(* copyToDownstream goroutine started per established link, closeUpstream  *)
(* and Close.                                                              *)
(*                                                                         *)
(* The tasks that take steps: each task that calls Write, the caller (or   *)
(* another task) inside Close, and one copyToDownstream goroutine per      *)
(* link.  A step is one blocking call or one access to the forwarder's     *)
(* fields.                                                                 *)
(***************************************************************************)
EXTENDS Integers, Sequences, FiniteSets

\* ------------------------------------------------------------------ bounds
MaxLinks == 2            \* transports the dial capability hands out
MaxWrites == 2           \* Write calls the caller issues
MaxFrames == 2           \* inbound frames a transport carries
MaxAttempts == 1         \* dial failures in a row (Spec, SpecConc)
MaxDialFailures == 2     \* dial failures in a row (SpecRetry)
MaxBackoffAttempts == 64 \* dial failures in a row (SpecBackoff)

Links == 1..MaxLinks
Nil == 0
ClientIds == {"uuidA"}
\* the tasks that may call Write: the caller, and a second task
Writers == {"caller", "other"}
Caller == "caller"

\* ------------------------------------------- time.Duration (int64, in ns)
\* A Duration is the set of the bit positions that are 1 in its 64-bit
\* two's complement representation.
Width == 64
\* 50 * time.Millisecond = 50,000,000 ns
BaseSleep == {7, 12, 13, 14, 15, 17, 19, 20, 21, 22, 23, 25}
\* idle timeouts a caller may configure: 30 ms, 1 s, 70 s
Ms30 == {7, 8, 9, 14, 15, 16, 19, 22, 23, 24}
Sec1 == {9, 11, 14, 15, 17, 19, 20, 23, 24, 25, 27, 28, 29}
Sec70 == {10, 11, 12, 13, 16, 17, 20, 22, 26, 27, 30, 36}
IdleTimeouts == {Ms30, Sec1, Sec70}

\* a < b for natural numbers given as bit sets (any width)
NatLess(a, b) ==
    \E i \in b \ a : \A j \in (a \cup b) : j > i => (j \in a <=> j \in b)
\* the natural number d * 2^n, not truncated
NatShl(d, n) == {i + n : i \in d}
NatMin(a, b) == IF NatLess(b, a) THEN b ELSE a
\* int64 arithmetic: the product wraps modulo 2^64
Int64(bits) == {i \in bits : i < Width}
IsNegative(d) == (Width - 1) \in d
\* a > b on int64 values
DurGreater(a, b) ==
    IF IsNegative(a) # IsNegative(b) THEN IsNegative(b) ELSE NatLess(b, a)
\* float64 -> int64 conversion of math.Pow(2, p): exact up to 2^62; 2^63 and
\* above do not fit, and the result is then implementation-specific
\* (0x8000000000000000 on amd64, saturated 0x7fffffffffffffff on arm64).
DurationOfPow2(p) ==
    IF p < Width - 1 THEN {{p}}
    ELSE {{Width - 1}, 0..(Width - 2)}
\* x * y on int64 for the multipliers DurationOfPow2 yields
DurMul(x, y) ==
    IF Cardinality(x) = 1
    THEN Int64(NatShl(y, CHOOSE i \in x : TRUE))
    ELSE \* (2^63 - 1) * y = -y modulo 2^64 for even y >= 2^7: two's
         \* complement of y
         LET low == CHOOSE i \in y : \A j \in y : i <= j
         IN  {low} \cup {i \in (low + 1)..(Width - 1) : i \notin y}

\* writeToUpstream, lines 81-86: the durations time.Sleep may be called with
SleepTimes(attempts, maxSleepTime) ==
    { IF DurGreater(s, maxSleepTime) THEN maxSleepTime ELSE s :
        s \in { DurMul(m, BaseSleep) : m \in DurationOfPow2(attempts) } }

\* ------------------------------------------------------------------- state
VARIABLES
    id,                    \* forwarder.id
    idleTimeout,           \* forwarder.idleTimeout
    upstreamConn,          \* forwarder.upstreamConn: a link or Nil
    upstream,              \* forwarder.upstream: a link or Nil
    copyToDownstreamError, \* the channel (capacity 1): values in flight
    downstream,            \* per link: the frames its loop passed to
                           \* f.downstream.Write, one per call, in order
    nconn,                 \* transports dialServer has returned so far
    connOpen,              \* per transport: not yet closed
    connOut,               \* per transport: the frames written to it
    connIn,                \* per transport: frames read from it so far
    loopPc,                \* per link: position of its copyToDownstream
    loopN,                 \* per link: n of the last Read (frame number, 0)
    loopErr,               \* per link: readErr # nil of the last Read
    wpc,                   \* per writer: its position inside Write
    wb,                    \* per writer: Write's argument b (packet number)
    wconn,                 \* per writer: dialUpstream's local upstreamConn
    priorAttempts,         \* per writer: writeToUpstream's local
    firstDial,             \* per writer: writeToUpstream's local
    nwrites,               \* Write calls issued so far
    wret,                  \* per writer: what its last Write returned
    cpc,                   \* position of the caller inside Close
    slept,                 \* history: argument of the last time.Sleep
    sleptFor,              \* history: priorAttempts it was computed from
    nsleeps,               \* history: time.Sleep calls in this Write call
    lastFail,              \* history: how the previous iteration failed
    dfails,                \* history: dialUpstream errors in this Write call
    consumed,              \* history: links whose termination was received
    published              \* history, per link: the errors its loop sent

vars == <<id, idleTimeout, upstreamConn, upstream, copyToDownstreamError,
          downstream, nconn, connOpen, connOut, connIn, loopPc, loopN,
          loopErr, wpc, wb, wconn, priorAttempts, firstDial, nwrites, wret,
          cpc, slept, sleptFor, nsleeps, lastFail, dfails, consumed,
          published>>

fields == <<upstreamConn, upstream>>
config == <<id, idleTimeout>>
chanVars == <<copyToDownstreamError, consumed, published>>
connVars == <<nconn, connOpen, connOut, connIn>>
loopVars == <<loopPc, loopN, loopErr>>
writeLocals == <<wb, wconn, priorAttempts, firstDial, nwrites, wret>>
sleepVars == <<slept, sleptFor, nsleeps, lastFail, dfails>>

\* Client(downstream, idleTimeout, dialServer)
ClientWith(timeouts) ==
    /\ id \in ClientIds
    /\ idleTimeout \in timeouts
    /\ upstreamConn = Nil
    /\ upstream = Nil
    /\ copyToDownstreamError = <<>>
    /\ downstream = [l \in Links |-> <<>>]
    /\ nconn = 0
    /\ connOpen = [l \in Links |-> FALSE]
    /\ connOut = [l \in Links |-> <<>>]
    /\ connIn = [l \in Links |-> 0]
    /\ loopPc = [l \in Links |-> "none"]
    /\ loopN = [l \in Links |-> 0]
    /\ loopErr = [l \in Links |-> FALSE]
    /\ wpc = [w \in Writers |-> "idle"]
    /\ wb = [w \in Writers |-> 0]
    /\ wconn = [w \in Writers |-> Nil]
    /\ priorAttempts = [w \in Writers |-> -1]
    /\ firstDial = [w \in Writers |-> TRUE]
    /\ nwrites = 0
    /\ wret = [w \in Writers |-> "none"]
    /\ cpc = "idle"
    /\ slept = [w \in Writers |-> {}]
    /\ sleptFor = [w \in Writers |-> -1]
    /\ nsleeps = [w \in Writers |-> 0]
    /\ lastFail = [w \in Writers |-> "none"]
    /\ dfails = [w \in Writers |-> 0]
    /\ consumed = {}
    /\ published = [l \in Links |-> <<>>]

Init == ClientWith({Sec1})

\* a copyToDownstream goroutine that was started and has not yet sent on
\* copyToDownstreamError
LoopActive(l) == loopPc[l] \notin {"none", "done"}
ActiveLoops == {l \in Links : LoopActive(l)}

\* ----------------------------------------------------- Write (a writer w)
\* Write(b) is called; writeToUpstream initialises its locals
WriteCall(w) ==
    /\ wpc[w] = "idle"
    /\ nwrites < MaxWrites
    /\ wpc' = [wpc EXCEPT ![w] = "top"]
    /\ wb' = [wb EXCEPT ![w] = nwrites + 1]
    /\ priorAttempts' = [priorAttempts EXCEPT ![w] = -1]
    /\ firstDial' = [firstDial EXCEPT ![w] = TRUE]
    /\ nwrites' = nwrites + 1
    /\ wret' = [wret EXCEPT ![w] = "none"]
    /\ nsleeps' = [nsleeps EXCEPT ![w] = 0]
    /\ slept' = [slept EXCEPT ![w] = {}]
    /\ sleptFor' = [sleptFor EXCEPT ![w] = -1]
    /\ lastFail' = [lastFail EXCEPT ![w] = "none"]
    /\ dfails' = [dfails EXCEPT ![w] = 0]
    /\ UNCHANGED <<fields, config, chanVars, downstream, connVars, loopVars,
                   wconn, cpc>>

\* C16 mutant: the loop head sleeps before the first attempt too
SleepsAlways(w) == priorAttempts[w] >= -1

\* line 81: whether the loop head sleeps before this iteration
SleepsFirst(w) == priorAttempts[w] > -1

\* top of the for loop: the backoff sleep, then priorAttempts++
WriteTop(w) ==
    /\ wpc[w] = "top"
    /\ IF SleepsFirst(w)
       THEN /\ \E d \in SleepTimes(priorAttempts[w], idleTimeout) :
                 slept' = [slept EXCEPT ![w] = d]
            /\ sleptFor' = [sleptFor EXCEPT ![w] = priorAttempts[w]]
            /\ nsleeps' = [nsleeps EXCEPT ![w] = @ + 1]
       ELSE UNCHANGED <<slept, sleptFor, nsleeps>>
    /\ priorAttempts' = [priorAttempts EXCEPT ![w] = @ + 1]
    /\ lastFail' = [lastFail EXCEPT ![w] = "none"]
    /\ wpc' = [wpc EXCEPT ![w] = "check"]
    /\ UNCHANGED <<fields, config, chanVars, downstream, connVars, loopVars,
                   wb, wconn, firstDial, nwrites, wret, cpc, dfails>>

\* if f.upstreamConn == nil { if !firstDial { <-... }; dialUpstream() }
WriteCheck(w) ==
    /\ wpc[w] = "check"
    /\ IF upstreamConn = Nil
       THEN /\ wpc' = [wpc EXCEPT ![w] = IF firstDial[w] THEN "dial"
                                                          ELSE "drain"]
            /\ UNCHANGED priorAttempts
       ELSE /\ wpc' = [wpc EXCEPT ![w] = "write"]
            /\ priorAttempts' = [priorAttempts EXCEPT ![w] = -1]
    /\ UNCHANGED <<fields, config, chanVars, downstream, connVars, loopVars,
                   wb, wconn, firstDial, nwrites, wret, cpc, sleepVars>>

\* <-f.copyToDownstreamError before a redial
WriteDrain(w) ==
    /\ wpc[w] = "drain"
    /\ copyToDownstreamError # <<>>
    /\ consumed' = consumed \cup {Head(copyToDownstreamError).gen}
    /\ copyToDownstreamError' = Tail(copyToDownstreamError)
    /\ wpc' = [wpc EXCEPT ![w] = "dial"]
    /\ UNCHANGED <<fields, config, published, downstream, connVars, loopVars,
                   writeLocals, cpc, sleepVars>>

\* dialUpstream: f.dialServer(ctx) fails; writeToUpstream logs and continues
DialFailUpTo(w, bound) ==
    /\ wpc[w] = "dial"
    /\ priorAttempts[w] < bound
    /\ wpc' = [wpc EXCEPT ![w] = "top"]
    /\ lastFail' = [lastFail EXCEPT ![w] = "dial"]
    /\ dfails' = [dfails EXCEPT ![w] = @ + 1]
    /\ UNCHANGED <<fields, config, chanVars, downstream, connVars, loopVars,
                   writeLocals, cpc, slept, sleptFor, nsleeps>>

DialFail(w) == DialFailUpTo(w, MaxAttempts)

\* dialUpstream: f.dialServer(ctx) returns a transport, which is wrapped
DialOk(w) ==
    /\ wpc[w] = "dial"
    /\ nconn < MaxLinks
    /\ nconn' = nconn + 1
    /\ connOpen' = [connOpen EXCEPT ![nconn + 1] = TRUE]
    /\ wconn' = [wconn EXCEPT ![w] = nconn + 1]
    /\ wpc' = [wpc EXCEPT ![w] = "handshake"]
    /\ UNCHANGED <<fields, config, chanVars, downstream, connOut, connIn,
                   loopVars, wb, priorAttempts, firstDial, nwrites, wret,
                   cpc, sleepVars>>

\* C8 mutant: a new uuid is generated for every dial
FreshIdentityFrame == <<"id", <<id, nconn>>>>

\* the frame dialUpstream writes first on a new transport
HandshakeFrame == <<"id", id>>

\* C19 mutant: the link is stored in the forwarder before the handshake, so
\* a failed handshake leaves it there
HandshakeFailKeepsLink(w) ==
    /\ wpc[w] = "handshake"
    /\ upstreamConn' = wconn[w]
    /\ upstream' = wconn[w]
    /\ wpc' = [wpc EXCEPT ![w] = "top"]
    /\ lastFail' = [lastFail EXCEPT ![w] = "handshake"]
    /\ dfails' = [dfails EXCEPT ![w] = @ + 1]
    /\ UNCHANGED <<config, chanVars, downstream, connVars, loopVars,
                   writeLocals, cpc, slept, sleptFor, nsleeps>>

\* dialUpstream: upstream.Write([]byte(f.id)) fails; the error is returned
\* (the transport is not closed), writeToUpstream logs and continues
HandshakeFail(w) ==
    /\ wpc[w] = "handshake"
    /\ wpc' = [wpc EXCEPT ![w] = "top"]
    /\ lastFail' = [lastFail EXCEPT ![w] = "handshake"]
    /\ dfails' = [dfails EXCEPT ![w] = @ + 1]
    /\ UNCHANGED <<fields, config, chanVars, downstream, connVars, loopVars,
                   writeLocals, cpc, slept, sleptFor, nsleeps>>

\* dialUpstream: upstream.Write([]byte(f.id)) succeeds
HandshakeOk(w) ==
    /\ wpc[w] = "handshake"
    /\ connOpen[wconn[w]]
    /\ connOut' = [connOut EXCEPT ![wconn[w]] = Append(@, HandshakeFrame)]
    /\ wpc' = [wpc EXCEPT ![w] = "install"]
    /\ UNCHANGED <<fields, config, chanVars, downstream, nconn, connOpen,
                   connIn, loopVars, writeLocals, cpc, sleepVars>>

\* dialUpstream lines 132-136 and writeToUpstream lines 99, 102: the link is
\* stored in the forwarder, its copyToDownstream goroutine is started
DialInstall(w) ==
    /\ wpc[w] = "install"
    /\ upstreamConn' = wconn[w]
    /\ upstream' = wconn[w]
    /\ loopPc' = [loopPc EXCEPT ![wconn[w]] = "read"]
    /\ firstDial' = [firstDial EXCEPT ![w] = FALSE]
    /\ priorAttempts' = [priorAttempts EXCEPT ![w] = -1]
    /\ wpc' = [wpc EXCEPT ![w] = "write"]
    /\ UNCHANGED <<config, chanVars, downstream, connVars, loopN, loopErr,
                   wb, wconn, nwrites, wret, cpc, sleepVars>>

\* the frame that carries Write's argument b
PacketFrame(w) == <<"pkt", wb[w]>>

\* f.upstream.Write(b) succeeds; writeToUpstream and Write return nil
WriteOk(w) ==
    /\ wpc[w] = "write"
    /\ upstream # Nil
    /\ connOpen[upstream]
    /\ connOut' = [connOut EXCEPT ![upstream] = Append(@, PacketFrame(w))]
    /\ wret' = [wret EXCEPT ![w] = "nil"]
    /\ wpc' = [wpc EXCEPT ![w] = "idle"]
    /\ UNCHANGED <<fields, config, chanVars, downstream, nconn, connOpen,
                   connIn, loopVars, wb, wconn, priorAttempts, firstDial,
                   nwrites, cpc, sleepVars>>

\* C11 mutant: the write error is returned to the caller
WriteFailReturnsError(w) ==
    /\ wpc[w] = "write"
    /\ upstream # Nil
    /\ wret' = [wret EXCEPT ![w] = "writeErr"]
    /\ wpc' = [wpc EXCEPT ![w] = "idle"]
    /\ UNCHANGED <<fields, config, chanVars, downstream, connVars, loopVars,
                   wb, wconn, priorAttempts, firstDial, nwrites, cpc,
                   sleepVars>>

\* f.upstream.Write(b) returns an error: the transport is closed, or fails
WriteFail(w) ==
    /\ wpc[w] = "write"
    /\ upstream # Nil
    /\ wpc' = [wpc EXCEPT ![w] = "closeUp"]
    /\ lastFail' = [lastFail EXCEPT ![w] = "write"]
    /\ UNCHANGED <<fields, config, chanVars, downstream, connVars, loopVars,
                   writeLocals, cpc, slept, sleptFor, nsleeps, dfails>>

\* f.upstream.Write(b) with f.upstream == nil: nil dereference, a panic
WriteNil(w) ==
    /\ wpc[w] = "write"
    /\ upstream = Nil
    /\ wpc' = [wpc EXCEPT ![w] = "panic"]
    /\ UNCHANGED <<fields, config, chanVars, downstream, connVars, loopVars,
                   writeLocals, cpc, sleepVars>>

\* closeUpstream's effect on the transports and on the forwarder's fields
ClosedByCloseUpstream ==
    IF upstream # Nil THEN [connOpen EXCEPT ![upstream] = FALSE] ELSE connOpen

\* C20 mutant: closeUpstream forgets f.upstreamConn = nil
closeUpstreamKeepsConn ==
    /\ connOpen' = ClosedByCloseUpstream
    /\ upstream' = Nil
    /\ upstreamConn' = upstreamConn

closeUpstream ==
    /\ connOpen' = ClosedByCloseUpstream
    /\ upstream' = Nil
    /\ upstreamConn' = IF upstream # Nil THEN Nil ELSE upstreamConn

\* writeToUpstream lines 106-108: closeUpstream, log, continue
WriteCloseUpstream(w) ==
    /\ wpc[w] = "closeUp"
    /\ closeUpstream
    /\ wpc' = [wpc EXCEPT ![w] = "top"]
    /\ UNCHANGED <<config, chanVars, downstream, nconn, connOut, connIn,
                   loopVars, writeLocals, cpc, sleepVars>>

\* ------------------------------------------------------------------- Close
CloseCall ==
    /\ cpc = "idle"
    /\ cpc' = "closeUp"
    /\ UNCHANGED <<fields, config, chanVars, downstream, connVars, loopVars,
                   wpc, writeLocals, sleepVars>>

CloseCloseUpstream ==
    /\ cpc = "closeUp"
    /\ closeUpstream
    /\ cpc' = "recv"
    /\ UNCHANGED <<config, chanVars, downstream, nconn, connOut, connIn,
                   loopVars, wpc, writeLocals, sleepVars>>

\* <-f.copyToDownstreamError; return nil
CloseRecv ==
    /\ cpc = "recv"
    /\ copyToDownstreamError # <<>>
    /\ consumed' = consumed \cup {Head(copyToDownstreamError).gen}
    /\ copyToDownstreamError' = Tail(copyToDownstreamError)
    /\ cpc' = "done"
    /\ UNCHANGED <<fields, config, published, downstream, connVars, loopVars,
                   wpc, writeLocals, sleepVars>>

\* -------------------------------------------- copyToDownstream (goroutine)
\* upstream.Read(b) returns a frame and no error
CopyReadFrame(l) ==
    /\ loopPc[l] = "read"
    /\ connOpen[l]
    /\ connIn[l] < MaxFrames
    /\ connIn' = [connIn EXCEPT ![l] = @ + 1]
    /\ loopN' = [loopN EXCEPT ![l] = connIn[l] + 1]
    /\ loopErr' = [loopErr EXCEPT ![l] = FALSE]
    /\ loopPc' = [loopPc EXCEPT ![l] = "deliver"]
    /\ UNCHANGED <<fields, config, chanVars, downstream, nconn, connOpen,
                   connOut, wpc, writeLocals, cpc, sleepVars>>

\* upstream.Read(b) returns a frame together with an error
CopyReadFrameErr(l) ==
    /\ loopPc[l] = "read"
    /\ connOpen[l]
    /\ connIn[l] < MaxFrames
    /\ connIn' = [connIn EXCEPT ![l] = @ + 1]
    /\ loopN' = [loopN EXCEPT ![l] = connIn[l] + 1]
    /\ loopErr' = [loopErr EXCEPT ![l] = TRUE]
    /\ loopPc' = [loopPc EXCEPT ![l] = "deliver"]
    /\ UNCHANGED <<fields, config, chanVars, downstream, nconn, connOpen,
                   connOut, wpc, writeLocals, cpc, sleepVars>>

\* upstream.Read(b) returns no bytes and an error: the transport was closed,
\* failed, or idled out
CopyReadErr(l) ==
    /\ loopPc[l] = "read"
    /\ loopN' = [loopN EXCEPT ![l] = 0]
    /\ loopErr' = [loopErr EXCEPT ![l] = TRUE]
    /\ loopPc' = [loopPc EXCEPT ![l] = "readClose"]
    /\ UNCHANGED <<fields, config, chanVars, downstream, connVars, wpc,
                   writeLocals, cpc, sleepVars>>

\* where the loop goes after f.downstream.Write(b[:n]) returned nil
AfterDeliver(l) == IF loopErr[l] THEN "readClose" ELSE "read"

\* f.downstream.Write(b[:n]) succeeds
CopyDeliverOk(l) ==
    /\ loopPc[l] = "deliver"
    /\ downstream' = [downstream EXCEPT ![l] = Append(@, loopN[l])]
    /\ loopPc' = [loopPc EXCEPT ![l] = AfterDeliver(l)]
    /\ loopN' = [loopN EXCEPT ![l] = 0]
    /\ UNCHANGED <<fields, config, chanVars, connVars, loopErr, wpc,
                   writeLocals, cpc, sleepVars>>

\* f.downstream.Write(b[:n]) returns an error
CopyDeliverFail(l) ==
    /\ loopPc[l] = "deliver"
    /\ downstream' = [downstream EXCEPT ![l] = Append(@, loopN[l])]
    /\ loopPc' = [loopPc EXCEPT ![l] = "sinkClose"]
    /\ loopN' = [loopN EXCEPT ![l] = 0]
    /\ loopErr' = [loopErr EXCEPT ![l] = FALSE]
    /\ UNCHANGED <<fields, config, chanVars, connVars, wpc, writeLocals,
                   cpc, sleepVars>>

\* upstream.Close() in either error branch
CopyClose(l) ==
    /\ loopPc[l] \in {"sinkClose", "readClose"}
    /\ connOpen' = [connOpen EXCEPT ![l] = FALSE]
    /\ loopPc' = [loopPc EXCEPT
                    ![l] = IF @ = "sinkClose" THEN "sinkPublish"
                                              ELSE "readPublish"]
    /\ UNCHANGED <<fields, config, chanVars, downstream, nconn, connOut,
                   connIn, loopN, loopErr, wpc, writeLocals, cpc, sleepVars>>

\* the error a loop sends: writeErr of the sink, or readErr
TerminationError(l) == IF loopPc[l] = "sinkPublish" THEN "sink" ELSE "read"

\* f.copyToDownstreamError <- err; return
CopyPublish(l) ==
    /\ loopPc[l] \in {"sinkPublish", "readPublish"}
    /\ Len(copyToDownstreamError) < 1
    /\ copyToDownstreamError' =
         Append(copyToDownstreamError,
                [gen |-> l, err |-> TerminationError(l)])
    /\ published' = [published EXCEPT ![l] = Append(@, TerminationError(l))]
    /\ loopPc' = [loopPc EXCEPT ![l] = "done"]
    /\ loopErr' = [loopErr EXCEPT ![l] = FALSE]
    /\ UNCHANGED <<fields, config, consumed, downstream, connVars, loopN,
                   wpc, writeLocals, cpc, sleepVars>>

\* ---------------------------------------------------------- specifications
\* Write and Close are called from one caller task, one call at a time
CallerFree == wpc[Caller] = "idle" /\ cpc \in {"idle", "done"}

WriteStep(w) ==
    \/ WriteTop(w)
    \/ WriteCheck(w)
    \/ WriteDrain(w)
    \/ DialFail(w)
    \/ DialOk(w)
    \/ HandshakeFail(w)
    \/ HandshakeOk(w)
    \/ DialInstall(w)
    \/ WriteOk(w)
    \/ WriteFail(w)
    \/ WriteCloseUpstream(w)

CloseStep ==
    \/ CloseCloseUpstream
    \/ CloseRecv

CopyLoop(l) ==
    \/ CopyReadFrame(l)
    \/ CopyReadFrameErr(l)
    \/ CopyReadErr(l)
    \/ CopyDeliverOk(l)
    \/ CopyDeliverFail(l)
    \/ CopyClose(l)
    \/ CopyPublish(l)

CopyStep == \E l \in Links : CopyLoop(l)

Next ==
    \/ CallerFree /\ WriteCall(Caller)
    \/ CallerFree /\ CloseCall
    \/ WriteStep(Caller)
    \/ CloseStep
    \/ CopyStep

Spec == Init /\ [][Next]_vars

\* every task that is running keeps running: the goroutines are scheduled,
\* a blocked Read ends at the latest when the idle timeout closes the
\* transport.  The caller is not obliged to call Write or Close again.
FairSpec ==
    /\ Spec
    /\ WF_vars(WriteStep(Caller))
    /\ WF_vars(CloseStep)
    /\ \A l \in Links : WF_vars(CopyLoop(l))

\* Close is called from another task than Write: the two interleave
NextConc ==
    \/ WriteCall(Caller)
    \/ CloseCall
    \/ WriteStep(Caller)
    \/ WriteNil(Caller)
    \/ CloseStep
    \/ CopyStep

SpecConc == Init /\ [][NextConc]_vars

\* two tasks call Write concurrently
NextWriters ==
    \/ \E w \in Writers : WriteCall(w)
    \/ \E w \in Writers : WriteStep(w)
    \/ \E w \in Writers : WriteNil(w)
    \/ CopyStep

SpecWriters == Init /\ [][NextWriters]_vars

\* one caller that only calls Write, with a dial capability that may fail
\* several times in a row
NextRetry ==
    \/ CallerFree /\ WriteCall(Caller)
    \/ WriteTop(Caller)
    \/ WriteCheck(Caller)
    \/ WriteDrain(Caller)
    \/ DialFailUpTo(Caller, MaxDialFailures)
    \/ DialOk(Caller)
    \/ HandshakeFail(Caller)
    \/ HandshakeOk(Caller)
    \/ DialInstall(Caller)
    \/ WriteOk(Caller)
    \/ WriteFail(Caller)
    \/ WriteCloseUpstream(Caller)
    \/ CopyStep

SpecRetry == Init /\ [][NextRetry]_vars

\* one caller whose dial capability keeps failing: the retry loop alone,
\* for any configured idle timeout
NextBackoff ==
    \/ CallerFree /\ WriteCall(Caller)
    \/ WriteTop(Caller)
    \/ WriteCheck(Caller)
    \/ DialFailUpTo(Caller, MaxBackoffAttempts)

SpecBackoff == ClientWith(IdleTimeouts) /\ [][NextBackoff]_vars

\* ------------------------------------------------------------------ claims
\* the link established last: the highest link whose loop was started
Established == {l \in Links : loopPc[l] # "none"}
LastLink == CHOOSE l \in Established : \A m \in Established : m <= l

\* C1: every Write call eventually returns.  On a client that is never
\* closed, Write is never at the receive from copyToDownstreamError with the
\* channel empty and no copy loop left to send on it (from there no step of
\* any task is possible, whatever the dial capability does afterwards).
WriteNeverBlockedForever ==
    ~(/\ cpc = "idle"
      /\ wpc[Caller] = "drain"
      /\ copyToDownstreamError = <<>>
      /\ ActiveLoops = {})

\* C2: at most one copy loop is active at any instant, a loop being active
\* from its start in dialUpstream until it has sent its termination value.
AtMostOneCopyLoop == Cardinality(ActiveLoops) <= 1

\* C3: a dial attempt made after some link was established is preceded by a
\* receive of the termination value of the copy loop of the link established
\* last, also when the attempt belongs to a later Write call.
RedialPrecededByDrain ==
    (wpc[Caller] = "dial" /\ Established # {}) => LastLink \in consumed

\* C4: when Close returns, every copy loop ever started has sent its
\* termination value and copyToDownstreamError holds no value.
CloseReturnsAfterAllLoops ==
    [][(cpc = "recv" /\ cpc' = "done")
         => (ActiveLoops' = {} /\ copyToDownstreamError' = <<>>)]_vars

\* C5: with Close running concurrently with a Write, Write never calls
\* f.upstream.Write on a nil f.upstream, Close and Write never both wait for
\* a single termination value, and once Close has returned no copy loop is
\* alive.
ConcurrentCloseSafe ==
    /\ wpc[Caller] # "panic"
    /\ ~(/\ wpc[Caller] = "drain"
         /\ cpc = "recv"
         /\ Len(copyToDownstreamError) + Cardinality(ActiveLoops) < 2)
    /\ (cpc = "done" => ActiveLoops = {})

\* C6: after Close has returned, a Write call does not dial, does not start
\* a copy loop and does not transmit the packet (it fails as Closed).
WriteAfterCloseRejected ==
    cpc = "done" => wpc[Caller] \notin {"dial", "handshake", "install", "write"}

\* C7: Close eventually returns in every lifecycle state.  With the caller
\* inside Close, Close is never at its receive with copyToDownstreamError
\* empty and no copy loop left to send on it.
CloseNeverBlockedForever ==
    ~(/\ cpc = "recv"
      /\ wpc[Caller] = "idle"
      /\ copyToDownstreamError = <<>>
      /\ ActiveLoops = {})

\* C8: on every transport the first frame written is the client identity,
\* the same on every transport, and every later frame is a packet.
IdentityFrameFirst ==
    \A l \in Links :
        connOut[l] # <<>> =>
            /\ connOut[l][1] = <<"id", id>>
            /\ \A i \in 2..Len(connOut[l]) : connOut[l][i][1] = "pkt"

\* C8 witness: a reconnect happened and packets went out on both transports
ReconnectedAndWrote ==
    \E l, m \in Links :
        l # m /\ Len(connOut[l]) >= 2 /\ Len(connOut[m]) >= 2

\* C9: the delay slept after the (n+1)-th dial failure in a row is
\* min(50ms * 2^n, idleTimeout), for every n.
BackoffDelayFormula ==
    sleptFor[Caller] >= 0 =>
        slept[Caller] =
            NatMin(NatShl(BaseSleep, sleptFor[Caller]), idleTimeout)

\* C10: a copy loop passes the sink the frames it read, one call per frame
\* and in the order read, and none after the error; a loop that ended on a
\* read error then sends its termination value, once: when the next Write
\* has returned on a newer link, that loop is not blocked at its send on a
\* full copyToDownstreamError; and Write never returns an error.
FramesThenPublishThenRedial ==
    /\ \A l \in Links :
        /\ downstream[l] = [i \in 1..Len(downstream[l]) |-> i]
        /\ Len(downstream[l]) =
             IF loopPc[l] = "deliver" THEN connIn[l] - 1 ELSE connIn[l]
        /\ Len(published[l]) <= 1
        /\ (/\ loopPc[l] = "readPublish"
            /\ connIn[l] > 0
            /\ wpc[Caller] = "idle" /\ wret[Caller] = "nil" /\ cpc = "idle"
            /\ upstream \notin {Nil, l})
             => copyToDownstreamError = <<>>
    /\ wret[Caller] \in {"none", "nil"}

\* C11: on a client that has not been closed Write never returns an error,
\* and when it has returned, it returned nil and its packet is among the
\* frames written to some link.
WriteReturnsOnlyAfterSend ==
    cpc = "idle" =>
        /\ wret[Caller] \in {"none", "nil"}
        /\ (wpc[Caller] = "idle" /\ nwrites > 0) => wret[Caller] = "nil"
        /\ wret[Caller] = "nil" =>
             \E l \in Links : \E i \in 1..Len(connOut[l]) :
                 connOut[l][i] = PacketFrame(Caller)

\* C11 witness: Write returned nil after dialUpstream had failed twice
WriteReturnedAfterFailures ==
    cpc = "idle" /\ wret[Caller] = "nil" /\ dfails[Caller] >= 2

\* C12: concurrent Write calls are serialised: never two tasks inside
\* dialUpstream (dialing, handshaking or storing a link), never two tasks
\* at a packet write on the link the forwarder holds.
WritersSerialized ==
    /\ Cardinality({w \in Writers :
                      wpc[w] \in {"dial", "handshake", "install"}}) <= 1
    /\ Cardinality({w \in Writers : wpc[w] = "write"}) <= 1

\* C13: whenever a copy loop is about to send its termination value,
\* copyToDownstreamError is empty, so the send does not block.
PublishNeverBlocks ==
    \A l \in Links :
        loopPc[l] \in {"sinkPublish", "readPublish"}
            => copyToDownstreamError = <<>>

\* C14: every receive from copyToDownstreamError (the drain before a redial,
\* or the one in Close) takes the value sent by the copy loop of the link
\* established last, never one of an earlier link.
DrainTakesCurrentTermination ==
    [][(copyToDownstreamError # <<>> /\ copyToDownstreamError' = <<>>)
         => Head(copyToDownstreamError).gen = LastLink]_vars

\* C15: the loop iteration that follows a failed packet write sleeps the
\* backoff delay before it redials.
BackoffAfterWriteFailure ==
    [][(/\ wpc[Caller] = "top"
        /\ lastFail[Caller] = "write"
        /\ wpc'[Caller] = "check")
         => nsleeps'[Caller] = nsleeps[Caller] + 1]_vars

FailedLoopPublishesAndEnds ==
    /\ [](\A l \in Links : Len(published[l]) <= 1)
    /\ [][\A l \in Links :
            loopPc[l] \in {"sinkClose", "sinkPublish", "readClose",
                           "readPublish", "done"}
                => /\ connIn'[l] = connIn[l]
                   /\ downstream'[l] = downstream[l]
                   /\ nconn' = nconn \/ wpc[Caller] = "dial"]_vars
    /\ \A l \in Links :
         (loopPc[l] \in {"sinkClose", "readClose"}) ~> (loopPc[l] = "done")

\* C18: when the controller is about to dial, no transport whose handshake
\* failed is still open.
FailedHandshakeTransportClosed ==
    wpc[Caller] = "dial" =>
        \A l \in Links : ~(connOpen[l] /\ connOut[l] = <<>>)

\* C19: a copy loop exists for a link exactly when its dial and handshake
\* succeeded, and it is started before the write path continues; a failed
\* dial or handshake leaves the forwarder without a link, starts no loop and
\* sends nothing on copyToDownstreamError.
LoopStartedIffHandshake ==
    /\ [](/\ \A l \in Links :
              /\ loopPc[l] # "none" => connOut[l] # <<>>
              /\ connOut[l] # <<>> =>
                   \/ loopPc[l] # "none"
                   \/ wpc[Caller] = "install" /\ wconn[Caller] = l
              /\ connOut[l] = <<>> =>
                   /\ published[l] = <<>>
                   /\ upstream # l
                   /\ upstreamConn # l
          /\ (wpc[Caller] = "write" /\ upstream # Nil)
               => loopPc[upstream] # "none")
    /\ [][(/\ wpc[Caller] \in {"dial", "handshake"}
           /\ wpc'[Caller] = "top")
            => /\ upstream = Nil /\ upstreamConn = Nil
               /\ UNCHANGED <<upstream, upstreamConn, loopPc,
                              copyToDownstreamError, published>>]_vars

\* C19 witness: a handshake failed on one transport and a later dial
\* succeeded and started its copy loop
HandshakeFailedThenLoopStarted ==
    \E l, m \in Links :
        /\ l < m /\ m <= nconn
        /\ connOut[l] = <<>>
        /\ loopPc[m] # "none"

\* C20: with one caller task, f.upstreamConn is nil exactly when f.upstream
\* is nil and both name the same link; the link held changes only in
\* closeUpstream, which closes it and clears both, or when dialUpstream
\* stores a fresh open link while none is held.
LinkHeldAsUnit ==
    /\ [](upstreamConn = upstream)
    /\ [][upstream' # upstream =>
            \/ /\ upstream' = Nil
               /\ upstreamConn' = Nil
               /\ ~connOpen'[upstream]
            \/ /\ upstream = Nil
               /\ upstream' = wconn[Caller]
               /\ loopPc[upstream'] = "none"
               /\ connOpen[upstream']]_vars

\* C20 witness: a link was closed and discarded and a fresh one is held
LinkReplaced ==
    /\ upstream = 2
    /\ upstreamConn = 2
    /\ ~connOpen[1]
    /\ loopPc[1] # "none"

====
